---------------------------- MODULE Spec2Model ----------------------------
(***************************************************************************)
(* The alumni-portal login and registration controller of                  *)
(* src/hackathon/login.js as a state machine.                              *)
(*                                                                         *)
(* Text that the code inspects character by character (field values that   *)
(* go through trim(), a regular expression or parseInt, and error and      *)
(* banner messages that go through includes('fetch')) is a sequence of     *)
(* one-character strings.  Values the code only compares or tests for      *)
(* emptiness (course, department, token, url, user name pieces, css        *)
(* classes, button labels) are plain strings.  A value that may be absent  *)
(* (null, undefined, a missing JSON member) is a sequence of length 0 or 1.*)
(*                                                                         *)
(* The clock is not a variable: how much time passes between two events    *)
(* is left open.  A pending timer keeps its delay, and the timer queue      *)
(* keeps the order in which the timers were set; a timer may fire unless a  *)
(* timer set before it with a delay no longer than its own is still         *)
(* pending (that one is due first).                                         *)
(*                                                                         *)
(* Four specifications: Spec is the page with every response the server    *)
(* may give; Live is the page with timers that come due, for what          *)
(* eventually happens; Calls applies the validators, the token helpers and *)
(* makeApiCall to arguments of their own; Blurs is the forms with the      *)
(* validation that runs when an input loses the focus.                     *)
(***************************************************************************)
EXTENDS Integers, Sequences, FiniteSets, TLC

----------------------------------------------------------------------------
(* Literal texts of the source.                                            *)

\* 'Please fill in all required fields' (login.js:292, 490)
MSG_REQUIRED ==
    <<"P","l","e","a","s","e"," ","f","i","l","l"," ","i","n"," ","a","l","l"," ","r","e","q",
      "u","i","r","e","d"," ","f","i","e","l","d","s">>

\* 'Invalid registration number format' (login.js:295, 494)
MSG_REGNO_FORMAT ==
    <<"I","n","v","a","l","i","d"," ","r","e","g","i","s","t","r","a","t","i","o","n"," ","n",
      "u","m","b","e","r"," ","f","o","r","m","a","t">>

\* 'Registration number already exists' (login.js:300)
MSG_REGNO_EXISTS ==
    <<"R","e","g","i","s","t","r","a","t","i","o","n"," ","n","u","m","b","e","r"," ","a","l",
      "r","e","a","d","y"," ","e","x","i","s","t","s">>

\* 'Year must be between 1970 and 2025' (login.js:303)
MSG_YEAR ==
    <<"Y","e","a","r"," ","m","u","s","t"," ","b","e"," ","b","e","t","w","e","e","n"," ","1",
      "9","7","0"," ","a","n","d"," ","2","0","2","5">>

\* login.js:306
MSG_PASSWORD ==
    <<"P","a","s","s","w","o","r","d"," ","m","u","s","t"," ","b","e"," ","a","t"," ","l","e",
      "a","s","t"," ","8"," ","c","h","a","r","a","c","t","e","r","s"," ","w","i","t","h"," ",
      "l","e","t","t","e","r","s"," ","a","n","d"," ","n","u","m","b","e","r","s">>

\* 'Passwords do not match' (login.js:309)
MSG_MISMATCH ==
    <<"P","a","s","s","w","o","r","d","s"," ","d","o"," ","n","o","t"," ","m","a","t","c","h">>

\* login.js:524, 583
MSG_CONNECT ==
    <<"U","n","a","b","l","e"," ","t","o"," ","c","o","n","n","e","c","t"," ","t","o"," ","s",
      "e","r","v","e","r","."," ","P","l","e","a","s","e"," ","c","h","e","c","k"," ","i","f",
      " ","t","h","e"," ","b","a","c","k","e","n","d"," ","i","s"," ","r","u","n","n","i","n",
      "g",".">>

\* login.js:519
MSG_LOGIN_FAILED ==
    <<"L","o","g","i","n"," ","f","a","i","l","e","d">>

\* login.js:526
MSG_LOGIN_RETRY ==
    <<"L","o","g","i","n"," ","f","a","i","l","e","d","."," ","P","l","e","a","s","e"," ","t",
      "r","y"," ","a","g","a","i","n",".">>

\* login.js:578
MSG_SIGNUP_FAILED ==
    <<"S","i","g","n","u","p"," ","f","a","i","l","e","d">>

\* login.js:585
MSG_SIGNUP_RETRY ==
    <<"S","i","g","n","u","p"," ","f","a","i","l","e","d","."," ","P","l","e","a","s","e"," ",
      "t","r","y"," ","a","g","a","i","n",".">>

\* login.js:572
MSG_CREATED ==
    <<"A","c","c","o","u","n","t"," ","c","r","e","a","t","e","d"," ","s","u","c","c","e","s",
      "s","f","u","l","l","y","!"," ","Y","o","u"," ","c","a","n"," ","n","o","w"," ","s","i",
      "g","n"," ","i","n",".">>

\* login.js:513
WELCOME_PREFIX ==
    <<"W","e","l","c","o","m","e"," ","b","a","c","k",","," ">>

\* login.js:513
WELCOME_SUFFIX ==
    <<"!">>

\* login.js:513
DEFAULT_USER ==
    <<"U","s","e","r">>

\* login.js:463
HTTP_ERROR_PREFIX ==
    <<"H","T","T","P"," ","e","r","r","o","r","!"," ","s","t","a","t","u","s",":"," ">>

\* the needle of error.message.includes('fetch') (login.js:523, 582)
FETCH_WORD ==
    <<"f","e","t","c","h">>

----------------------------------------------------------------------------
(* Character classes and string functions.                                 *)

\* [A-Z] and [a-z] of the regular expressions (login.js:180, 196)
Letters ==
    {"A","B","C","D","E","F","G","H","I","J","K","L","M","N","O","P","Q","R","S","T","U","V",
     "W","X","Y","Z","a","b","c","d","e","f","g","h","i","j","k","l","m","n","o","p","q","r",
     "s","t","u","v","w","x","y","z"}

\* [0-9] and \d
Digits == {"0","1","2","3","4","5","6","7","8","9"}

\* the symbols the password class admits: @$!%*#?& (login.js:196)
PasswordSymbols == {"@","$","!","%","*","#","?","&"}

\* white space as String.prototype.trim and parseInt strip it
WhiteSpace == {" ", "\t", "\n", "\r"}

\* value of a decimal digit
DigitValue(c) ==
    CASE c = "0" -> 0 [] c = "1" -> 1 [] c = "2" -> 2 [] c = "3" -> 3 [] c = "4" -> 4
      [] c = "5" -> 5 [] c = "6" -> 6 [] c = "7" -> 7 [] c = "8" -> 8 [] c = "9" -> 9

\* the decimal digit of a value 0..9
DigitChar(d) == <<"0","1","2","3","4","5","6","7","8","9">>[d + 1]

\* a template literal's ${number}: the decimal text of a natural number
RECURSIVE NumberToText(_)
NumberToText(n) ==
    IF n < 10 THEN <<DigitChar(n)>>
    ELSE NumberToText(n \div 10) \o <<DigitChar(n % 10)>>

\* String.prototype.includes: needle occurs in hay as a contiguous run
Includes(hay, needle) ==
    \E i \in 0..(Len(hay) - Len(needle)) :
        \A j \in 1..Len(needle) : hay[i + j] = needle[j]

\* String.prototype.trim
RECURSIVE TrimLeft(_)
TrimLeft(s) ==
    IF s # <<>> /\ Head(s) \in WhiteSpace THEN TrimLeft(Tail(s)) ELSE s

RECURSIVE TrimRight(_)
TrimRight(s) ==
    IF s # <<>> /\ s[Len(s)] \in WhiteSpace
    THEN TrimRight(SubSeq(s, 1, Len(s) - 1)) ELSE s

Trim(s) == TrimRight(TrimLeft(s))

\* the longest prefix of decimal digits of s
RECURSIVE DigitPrefix(_)
DigitPrefix(s) ==
    IF s # <<>> /\ Head(s) \in Digits THEN <<Head(s)>> \o DigitPrefix(Tail(s)) ELSE <<>>

RECURSIVE DecimalValue(_)
DecimalValue(ds) ==
    IF ds = <<>> THEN 0
    ELSE 10 * DecimalValue(SubSeq(ds, 1, Len(ds) - 1)) + DigitValue(ds[Len(ds)])

\* hexadecimal digits and their values, for parseInt's 0x prefix
HexDigits == Digits \cup {"a","b","c","d","e","f","A","B","C","D","E","F"}

HexValue(c) ==
    IF c \in Digits THEN DigitValue(c)
    ELSE CASE c \in {"a","A"} -> 10 [] c \in {"b","B"} -> 11 [] c \in {"c","C"} -> 12
           [] c \in {"d","D"} -> 13 [] c \in {"e","E"} -> 14 [] c \in {"f","F"} -> 15

RECURSIVE HexPrefix(_)
HexPrefix(s) ==
    IF s # <<>> /\ Head(s) \in HexDigits THEN <<Head(s)>> \o HexPrefix(Tail(s)) ELSE <<>>

RECURSIVE HexNumber(_)
HexNumber(ds) ==
    IF ds = <<>> THEN 0
    ELSE 16 * HexNumber(SubSeq(ds, 1, Len(ds) - 1)) + HexValue(ds[Len(ds)])

\* parseInt(year) with no radix: leading white space and one sign are skipped,
\* a 0x / 0X prefix selects base 16, the longest digit prefix is read, and
\* the result is NaN (here <<>>) when that prefix is empty; else <<value>>.
parseInt(s) ==
    LET t    == TrimLeft(s)
        neg  == t # <<>> /\ Head(t) = "-"
        u    == IF t # <<>> /\ Head(t) \in {"+", "-"} THEN Tail(t) ELSE t
        hex  == Len(u) >= 2 /\ u[1] = "0" /\ u[2] \in {"x", "X"}
        ds   == IF hex THEN HexPrefix(SubSeq(u, 3, Len(u))) ELSE DigitPrefix(u)
        v    == IF hex THEN HexNumber(ds) ELSE DecimalValue(ds)
    IN  IF ds = <<>> THEN <<>> ELSE <<IF neg THEN 0 - v ELSE v>>

----------------------------------------------------------------------------
(* Field validation functions.                                             *)

\* /^[A-Za-z0-9]{6,}$/
validateRegistrationNumber(regNo) ==
    /\ Len(regNo) >= 6
    /\ \A i \in 1..Len(regNo) : regNo[i] \in Letters \cup Digits

\* lower and upper limit of the passing year
MIN_YEAR == 1970
MAX_YEAR == 2025

\* parseInt, then two comparisons; a comparison with NaN is false
validatePassingYear(year) ==
    LET numYear == parseInt(year)
    IN  numYear # <<>> /\ numYear[1] >= MIN_YEAR /\ numYear[1] <= MAX_YEAR

\* least length of a password
MIN_PASSWORD_LEN == 8

\* /^(?=.*[A-Za-z])(?=.*\d)[A-Za-z\d@$!%*#?&]{8,}$/
validatePassword(password) ==
    /\ \E i \in 1..Len(password) : password[i] \in Letters
    /\ \E i \in 1..Len(password) : password[i] \in Digits
    /\ Len(password) >= MIN_PASSWORD_LEN
    /\ \A i \in 1..Len(password) : password[i] \in Letters \cup Digits \cup PasswordSymbols

----------------------------------------------------------------------------
(* Absent values.                                                          *)

\* null / undefined / a missing member
None == <<>>

\* a present value
Some(x) == <<x>>

\* JavaScript truthiness of an optional plain string
TruthyString(o) == o # None /\ o[1] # ""

\* JavaScript truthiness of an optional text (sequence of characters)
TruthyText(o) == o # None /\ o[1] # <<>>

----------------------------------------------------------------------------
(* Department data for the dropdowns.                                      *)

\* departmentData.UG
UG_DEPARTMENTS ==
    <<"ECONOMICS", "ENGLISH", "GEOGRAPHY", "HINDI", "HISTORY",
      "PHILOSOPHY", "POLITICAL SCIENCE", "PSYCHOLOGY", "URDU",
      "BOTANY", "CHEMISTRY", "MATHEMATICS", "PHYSICS", "ZOOLOGY",
      "BCA", "BBA", "BED">>

\* departmentData.PG
PG_DEPARTMENTS ==
    <<"ECONOMICS", "GEOGRAPHY", "HINDI", "HISTORY",
      "POLITICAL SCIENCE", "PHYSICS", "CHEMISTRY">>

\* departmentData[course]: None when the object has no such key
departmentData(course) ==
    CASE course = "UG" -> Some(UG_DEPARTMENTS)
      [] course = "PG" -> Some(PG_DEPARTMENTS)
      [] OTHER -> None

\* '<option value="">Select Department</option>'
PLACEHOLDER_OPTION == [value |-> "", text |-> "Select Department"]

\* the option element handleCourseChange builds for a department
DepartmentOption(dept) == [value |-> dept, text |-> dept]

----------------------------------------------------------------------------
(* Delays of the setTimeout calls, in milliseconds.                        *)

AUTO_HIDE_MS == 5000
REDIRECT_MS  == 1500
SWITCH_MS    == 2000

\* the page of the forms, and the default target of the redirect
THIS_PAGE == "login.html"
DASHBOARD == "dashboard.html"

----------------------------------------------------------------------------
(* Bounds of the model and the inputs of the environment.                  *)

\* most timers pending at once
MaxTimers == 4

\* the positions of the department options the user picks from
DepartmentPicks == {1, 2}

\* the values of the course <select>
Courses == {"", "UG", "PG", "PHD"}

\* what the token slot may hold when the page loads
InitialTokens == {None, Some("old")}

\* what the cache of known users may hold when the page loads
\* (registration numbers; nothing in login.js writes it)
InitialUsers == {{<<"C","D","5","6","7","8">>}}

\* what the user types into the login form: registration number, password
LoginEntries ==
    {[regNo |-> <<"A","B","1","2">>, password |-> <<"s","e","c","r","e","t">>],
     [regNo |-> <<" ","A","B","1","2","3","4"," ">>, password |-> <<>>],
     [regNo |-> <<" ","A","B","1","2","3","4"," ">>, password |-> <<"s","e","c","r","e","t">>]}

\* what the user types into the text inputs of the signup form
SignupEntries ==
    LET ok == [name |-> <<"A","s","h","a">>, fatherName |-> <<"R","a","v","i">>,
               regNo |-> <<" ","A","B","1","2","3","4">>,
               passingYear |-> <<"1","9","7","0">>,
               password |-> <<"a","b","c","1","2","3","4","5">>,
               confirmPassword |-> <<"a","b","c","1","2","3","4","5">>]
    IN  { ok,
          [ok EXCEPT !.regNo = <<"C","D","5","6","7","8">>],
          [ok EXCEPT !.confirmPassword = <<"a","b","c","1","2","3","4","6">>],
          [ok EXCEPT !.name = <<" "," ">>,
                     !.confirmPassword = <<"a","b","c","1","2","3","4","6">>] }

\* a response body: the members of ApiResponse the handlers read
\* (name stands for user?.name)
NoBody ==
    [success |-> FALSE, message |-> None, token |-> None, name |-> None,
     redirectUrl |-> None]

\* bodies of responses that report failure, without and with a message
FailureBodies ==
    {[NoBody EXCEPT !.message = m] :
        m \in {None, Some(<<"I","n","v","a","l","i","d"," ","c","r","e","d","e","n","t",
                            "i","a","l","s">>)}}

\* bodies of responses that report success
SuccessBodies ==
    {[NoBody EXCEPT !.success = TRUE, !.token = t, !.name = d[1], !.redirectUrl = d[2]] :
        t \in {None, Some(""), Some("xyz")},
        d \in {<<None, None>>, <<Some(<<"A","s","h","a">>), Some("home.html")>>}}

\* how a request may end: fetch rejects (network), response.json() rejects
\* (badjson), or a JSON body arrives with a status (json)
Outcomes ==
    {[kind |-> "network", text |-> t, status |-> 0, body |-> NoBody] :
        t \in {<<"F","a","i","l","e","d"," ","t","o"," ","f","e","t","c","h">>,
               <<"L","o","a","d"," ","f","a","i","l","e","d">>}}
    \cup
    {[kind |-> "badjson", text |-> t, status |-> 200, body |-> NoBody] :
        t \in {<<"U","n","e","x","p","e","c","t","e","d"," ","t","o","k","e","n"," ","<",
                 " ","i","n"," ","J","S","O","N"," ","a","t"," ","p","o","s","i","t","i",
                 "o","n"," ","0">>,
               <<"U","n","e","x","p","e","c","t","e","d"," ","t","o","k","e","n"," ","'",
                 "p","'",","," ","\"","p","r","e","f","e","t","c","h"," ","o","f","f","\"",
                 " ","i","s"," ","n","o","t"," ","v","a","l","i","d"," ","J","S","O","N">>}}
    \cup
    {[kind |-> "json", text |-> <<>>, status |-> 401, body |-> b] : b \in FailureBodies}
    \cup
    {[kind |-> "json", text |-> <<>>, status |-> 200, body |-> b] :
        b \in FailureBodies \cup SuccessBodies}

----------------------------------------------------------------------------
(* The state.                                                              *)

VARIABLES
    active,        \* [login, signup]: which form carries the class 'active'
    message,       \* the message area: [shown, text, type, icon]
    timers,        \* pending setTimeout callbacks, in the order they were set
    token,         \* localStorage slot 'token'
    users,         \* registration numbers of localStorage slot 'users'
    loginFields,   \* values of loginRegNo, loginPassword
    signupFields,  \* values of the signup inputs and the two selects
    department,    \* the department <select>: [disabled, options]
    buttons,       \* [login, signup]: each submit button's [disabled, loading, label]
    pending,       \* [login, signup]: requests awaiting their response
    location,      \* window.location.href
    fnCall,        \* a call of one function on its own: [fn, arg, done, result]
    feedback       \* per validated input: [classList, errorMessages, borderColor]

\* the page and its storage
page ==
    <<active, message, timers, token, users, loginFields, signupFields, department,
      buttons, pending, location, feedback>>
vars ==
    <<active, message, timers, token, users, loginFields, signupFields, department,
      buttons, pending, location, fnCall, feedback>>

\* the state as one record, for the functions below
State ==
    [active |-> active, message |-> message, timers |-> timers, token |-> token,
     users |-> users, loginFields |-> loginFields, signupFields |-> signupFields,
     department |-> department, buttons |-> buttons, pending |-> pending,
     location |-> location]

\* the next state is the record r
Becomes(r) ==
    /\ active' = r.active
    /\ message' = r.message
    /\ timers' = r.timers
    /\ token' = r.token
    /\ users' = r.users
    /\ loginFields' = r.loginFields
    /\ signupFields' = r.signupFields
    /\ department' = r.department
    /\ buttons' = r.buttons
    /\ pending' = r.pending
    /\ location' = r.location
    /\ fnCall' = fnCall
    /\ feedback' = feedback

\* no function is called on its own
NoCall == [fn |-> "", arg |-> <<>>, done |-> FALSE, result |-> <<>>]

\* the inputs that setupRealTimeValidation gives a blur listener
ValidatedInputs ==
    {"loginRegNo", "regNumber", "signupPassingYear", "signupPassword", "confirmPassword"}

\* an input that no validation has touched: its wrapper (the parent element)
\* carries neither class and holds no .error-message child, and the input has
\* no inline border colour
NoFeedback == [classList |-> {}, errorMessages |-> <<>>, borderColor |-> ""]

\* a form after reset()
EmptyLoginFields == [regNo |-> <<>>, password |-> <<>>]

EmptySignupFields ==
    [name |-> <<>>, fatherName |-> <<>>, course |-> "", department |-> "",
     regNo |-> <<>>, passingYear |-> <<>>, password |-> <<>>, confirmPassword |-> <<>>]

\* The page as it loads.  The HTML is not among the sources: the page is
\* taken to load as switchToLogin leaves it, with the login form active, the
\* inputs empty, no course selected and the department dropdown disabled
\* with its placeholder, and with the button labels showLoadingState restores.
Loaded ==
    /\ active = [login |-> TRUE, signup |-> FALSE]
    /\ message = [shown |-> FALSE, text |-> <<>>, type |-> "", icon |-> ""]
    /\ timers = <<>>
    /\ loginFields = EmptyLoginFields
    /\ signupFields = EmptySignupFields
    /\ department = [disabled |-> TRUE, options |-> <<PLACEHOLDER_OPTION>>]
    /\ buttons = [login |-> [disabled |-> FALSE, loading |-> FALSE, label |-> "Sign In"],
                  signup |-> [disabled |-> FALSE, loading |-> FALSE,
                              label |-> "Create Account"]]
    /\ pending = [login |-> 0, signup |-> 0]
    /\ location = THIS_PAGE
    /\ feedback = [i \in ValidatedInputs |-> NoFeedback]

Init ==
    /\ Loaded
    /\ token \in InitialTokens
    /\ users \in InitialUsers
    /\ fnCall = NoCall

----------------------------------------------------------------------------
(* Helpers of the handlers: functions from state to state.                 *)

\* setTimeout(callback, ms): kind names the callback, url is what the
\* redirect callback captured
setTimeout(s, kind, ms, url) ==
    [s EXCEPT !.timers = Append(@, [kind |-> kind, delay |-> ms, url |-> url])]

hideMessage(s) == [s EXCEPT !.message.shown = FALSE]

showMessage(s, text, type) ==
    LET icon == IF type = "success" THEN "fas fa-check-circle"
                ELSE IF type = "error" THEN "fas fa-exclamation-circle"
                ELSE s.message.icon
        shown == [s EXCEPT !.message =
                     [shown |-> TRUE, text |-> text, type |-> type, icon |-> icon]]
    IN  setTimeout(shown, "hide", AUTO_HIDE_MS, "")

\* showLoadingState that sets the class and the label but never the
\* disabled property
showLoadingStateLeavesEnabled(s, form, isLoading) ==
    IF isLoading
    THEN [s EXCEPT !.buttons[form].loading = TRUE,
                   !.buttons[form].label = "Processing..."]
    ELSE [s EXCEPT !.buttons[form].loading = FALSE,
                   !.buttons[form].label =
                       IF form = "login" THEN "Sign In" ELSE "Create Account"]

\* showLoadingState(button, isLoading), button being the submit button of form
showLoadingState(s, form, isLoading) ==
    IF isLoading
    THEN [s EXCEPT !.buttons[form] =
             [disabled |-> TRUE, loading |-> TRUE, label |-> "Processing..."]]
    ELSE [s EXCEPT !.buttons[form] =
             [disabled |-> FALSE, loading |-> FALSE,
              label |-> IF form = "login" THEN "Sign In" ELSE "Create Account"]]

\* the option elements handleCourseChange appends
RECURSIVE DepartmentOptions(_)
DepartmentOptions(depts) ==
    IF depts = <<>> THEN <<>>
    ELSE <<DepartmentOption(Head(depts))>> \o DepartmentOptions(Tail(depts))

\* handleCourseChange that does not empty the option list before it appends
handleCourseChangeAppends(s) ==
    LET selectedCourse == s.signupFields.course
    IN  IF selectedCourse # "" /\ departmentData(selectedCourse) # None
        THEN [s EXCEPT
                 !.department.disabled = FALSE,
                 !.department.options =
                     @ \o DepartmentOptions(departmentData(selectedCourse)[1])]
        ELSE [s EXCEPT !.department.disabled = TRUE,
                       !.department.options = <<PLACEHOLDER_OPTION>>,
                       !.signupFields.department = ""]

\* The opacity fade of lines 112-116 writes only style.opacity, which no
\* code reads; it is not part of the state.
handleCourseChange(s) ==
    LET selectedCourse == s.signupFields.course
        reset == [s EXCEPT !.department.options = <<PLACEHOLDER_OPTION>>,
                           !.signupFields.department = ""]
    IN  IF selectedCourse # "" /\ departmentData(selectedCourse) # None
        THEN [reset EXCEPT
                 !.department.disabled = FALSE,
                 !.department.options =
                     @ \o DepartmentOptions(departmentData(selectedCourse)[1])]
        ELSE [reset EXCEPT !.department.disabled = TRUE]

\* switchToSignup that shows the signup form without hiding the login form
switchToSignupKeepsLogin(s) ==
    [hideMessage([s EXCEPT !.active.signup = TRUE])
        EXCEPT !.loginFields = EmptyLoginFields]

switchToSignup(s) ==
    [hideMessage([s EXCEPT !.active.login = FALSE, !.active.signup = TRUE])
        EXCEPT !.loginFields = EmptyLoginFields]

\* switchToLogin without its last two lines, the reset of the dropdown
switchToLoginKeepsDropdown(s) ==
    [hideMessage([s EXCEPT !.active.signup = FALSE, !.active.login = TRUE])
        EXCEPT !.signupFields = EmptySignupFields]

\* switchToLogin with classList.toggle in place of remove and add
switchToLoginToggles(s) ==
    [hideMessage([s EXCEPT !.active.signup = ~@, !.active.login = ~@])
        EXCEPT !.signupFields = EmptySignupFields,
               !.department.disabled = TRUE,
               !.department.options = <<PLACEHOLDER_OPTION>>]

switchToLogin(s) ==
    [hideMessage([s EXCEPT !.active.signup = FALSE, !.active.login = TRUE])
        EXCEPT !.signupFields = EmptySignupFields,
               !.department.disabled = TRUE,
               !.department.options = <<PLACEHOLDER_OPTION>>]

----------------------------------------------------------------------------
(* Signup data validation.                                                 *)

\* getStoredUsers(): the registration numbers of the cached users
getStoredUsers(s) == s.users

\* validateSignupData without its last check, password against confirmation
validateSignupDataNoConfirm(data, existingUsers) ==
    IF \/ data.name = <<>> \/ data.fatherName = <<>> \/ data.course = ""
       \/ data.department = "" \/ data.regNo = <<>> \/ data.passingYear = <<>>
       \/ data.password = <<>> \/ data.confirmPassword = <<>>
    THEN [isValid |-> FALSE, message |-> MSG_REQUIRED]
    ELSE IF ~validateRegistrationNumber(data.regNo)
    THEN [isValid |-> FALSE, message |-> MSG_REGNO_FORMAT]
    ELSE IF \E user \in existingUsers : user = data.regNo
    THEN [isValid |-> FALSE, message |-> MSG_REGNO_EXISTS]
    ELSE IF ~validatePassingYear(data.passingYear)
    THEN [isValid |-> FALSE, message |-> MSG_YEAR]
    ELSE IF ~validatePassword(data.password)
    THEN [isValid |-> FALSE, message |-> MSG_PASSWORD]
    ELSE [isValid |-> TRUE, message |-> <<>>]

\* validateSignupData that checks the passing year before it looks the
\* registration number up in the cache
validateSignupDataYearFirst(data, existingUsers) ==
    IF \/ data.name = <<>> \/ data.fatherName = <<>> \/ data.course = ""
       \/ data.department = "" \/ data.regNo = <<>> \/ data.passingYear = <<>>
       \/ data.password = <<>> \/ data.confirmPassword = <<>>
    THEN [isValid |-> FALSE, message |-> MSG_REQUIRED]
    ELSE IF ~validateRegistrationNumber(data.regNo)
    THEN [isValid |-> FALSE, message |-> MSG_REGNO_FORMAT]
    ELSE IF ~validatePassingYear(data.passingYear)
    THEN [isValid |-> FALSE, message |-> MSG_YEAR]
    ELSE IF \E user \in existingUsers : user = data.regNo
    THEN [isValid |-> FALSE, message |-> MSG_REGNO_EXISTS]
    ELSE IF ~validatePassword(data.password)
    THEN [isValid |-> FALSE, message |-> MSG_PASSWORD]
    ELSE IF data.password # data.confirmPassword
    THEN [isValid |-> FALSE, message |-> MSG_MISMATCH]
    ELSE [isValid |-> TRUE, message |-> <<>>]

validateSignupData(data, existingUsers) ==
    IF \/ data.name = <<>> \/ data.fatherName = <<>> \/ data.course = ""
       \/ data.department = "" \/ data.regNo = <<>> \/ data.passingYear = <<>>
       \/ data.password = <<>> \/ data.confirmPassword = <<>>
    THEN [isValid |-> FALSE, message |-> MSG_REQUIRED]
    ELSE IF ~validateRegistrationNumber(data.regNo)
    THEN [isValid |-> FALSE, message |-> MSG_REGNO_FORMAT]
    ELSE IF \E user \in existingUsers : user = data.regNo
    THEN [isValid |-> FALSE, message |-> MSG_REGNO_EXISTS]
    ELSE IF ~validatePassingYear(data.passingYear)
    THEN [isValid |-> FALSE, message |-> MSG_YEAR]
    ELSE IF ~validatePassword(data.password)
    THEN [isValid |-> FALSE, message |-> MSG_PASSWORD]
    ELSE IF data.password # data.confirmPassword
    THEN [isValid |-> FALSE, message |-> MSG_MISMATCH]
    ELSE [isValid |-> TRUE, message |-> <<>>]

----------------------------------------------------------------------------
(* Token helpers.                                                          *)

gettoken(s) == s.token

removetoken(s) == [s EXCEPT !.token = None]

isUserLoggedIn(s) == TruthyString(gettoken(s))

----------------------------------------------------------------------------
(* The API call.                                                           *)

\* response.ok
ResponseOk(status) == status \in 200..299

\* makeApiCall that looks at response.ok before it parses the body, and
\* takes a body that does not parse for a body without a message
makeApiCallStatusFirst(o) ==
    IF o.kind = "network"
    THEN [threw |-> TRUE, message |-> o.text, result |-> NoBody]
    ELSE IF ~ResponseOk(o.status)
    THEN [threw |-> TRUE,
          message |-> IF o.kind = "json" /\ TruthyText(o.body.message)
                      THEN o.body.message[1]
                      ELSE HTTP_ERROR_PREFIX \o NumberToText(o.status),
          result |-> NoBody]
    ELSE IF o.kind = "badjson"
    THEN [threw |-> TRUE, message |-> o.text, result |-> NoBody]
    ELSE [threw |-> FALSE, message |-> <<>>, result |-> o.body]

\* makeApiCall, from the outcome of the request to what the await yields:
\* [threw |-> TRUE, message] for a raised error, [threw |-> FALSE, result]
makeApiCall(o) ==
    IF o.kind \in {"network", "badjson"}
    THEN [threw |-> TRUE, message |-> o.text, result |-> NoBody]
    ELSE IF ~ResponseOk(o.status)
    THEN [threw |-> TRUE,
          message |-> IF TruthyText(o.body.message) THEN o.body.message[1]
                      ELSE HTTP_ERROR_PREFIX \o NumberToText(o.status),
          result |-> NoBody]
    ELSE [threw |-> FALSE, message |-> <<>>, result |-> o.body]

----------------------------------------------------------------------------
(* Form submission handlers.  Each handler runs to its await               *)
(* (handleLogin, handleSignup) and resumes when the request is settled     *)
(* (loginSettled, signupSettled).                                          *)

\* loginCatch without the call that clears the loading state
loginCatchStaysLoading(s, errorMessage) ==
    IF Includes(errorMessage, FETCH_WORD)
    THEN showMessage(s, MSG_CONNECT, "error")
    ELSE showMessage(s, IF errorMessage # <<>> THEN errorMessage ELSE MSG_LOGIN_RETRY,
                     "error")

\* loginCatch that also logs out: it removes the token
loginCatchRemovesToken(s, errorMessage) ==
    LET s1 == showLoadingState([s EXCEPT !.token = None], "login", FALSE)
    IN  IF Includes(errorMessage, FETCH_WORD)
        THEN showMessage(s1, MSG_CONNECT, "error")
        ELSE showMessage(s1, IF errorMessage # <<>> THEN errorMessage ELSE MSG_LOGIN_RETRY,
                         "error")

\* the catch block of handleLogin
loginCatch(s, errorMessage) ==
    LET s1 == showLoadingState(s, "login", FALSE)
    IN  IF Includes(errorMessage, FETCH_WORD)
        THEN showMessage(s1, MSG_CONNECT, "error")
        ELSE showMessage(s1, IF errorMessage # <<>> THEN errorMessage ELSE MSG_LOGIN_RETRY,
                         "error")

\* loginSuccess that stores the token only into an empty slot
loginSuccessKeepsToken(s, response) ==
    LET s1 == IF TruthyString(response.token) /\ s.token = None
              THEN [s EXCEPT !.token = Some(response.token[1])] ELSE s
        who == IF TruthyText(response.name) THEN response.name[1] ELSE DEFAULT_USER
        s2 == showMessage(s1, WELCOME_PREFIX \o who \o WELCOME_SUFFIX, "success")
    IN  setTimeout(s2, "redirect", REDIRECT_MS,
                   IF TruthyString(response.redirectUrl) THEN response.redirectUrl[1]
                   ELSE DASHBOARD)

\* loginSuccess that redirects to the dashboard whatever the response says
loginSuccessToDashboard(s, response) ==
    LET s1 == IF TruthyString(response.token)
              THEN [s EXCEPT !.token = Some(response.token[1])] ELSE s
        who == IF TruthyText(response.name) THEN response.name[1] ELSE DEFAULT_USER
        s2 == showMessage(s1, WELCOME_PREFIX \o who \o WELCOME_SUFFIX, "success")
    IN  setTimeout(s2, "redirect", REDIRECT_MS, DASHBOARD)

\* loginSuccess whose redirect takes the place of the redirects pending
loginSuccessReplacesRedirect(s, response) ==
    LET s1 == IF TruthyString(response.token)
              THEN [s EXCEPT !.token = Some(response.token[1])] ELSE s
        who == IF TruthyText(response.name) THEN response.name[1] ELSE DEFAULT_USER
        s2 == showMessage(s1, WELCOME_PREFIX \o who \o WELCOME_SUFFIX, "success")
        s3 == [s2 EXCEPT !.timers = SelectSeq(@, LAMBDA t : t.kind # "redirect")]
    IN  setTimeout(s3, "redirect", REDIRECT_MS,
                   IF TruthyString(response.redirectUrl) THEN response.redirectUrl[1]
                   ELSE DASHBOARD)

\* the success branch of handleLogin: response.success is true
loginSuccess(s, response) ==
    LET s1 == IF TruthyString(response.token)
              THEN [s EXCEPT !.token = Some(response.token[1])] ELSE s
        who == IF TruthyText(response.name) THEN response.name[1] ELSE DEFAULT_USER
        s2 == showMessage(s1, WELCOME_PREFIX \o who \o WELCOME_SUFFIX, "success")
    IN  setTimeout(s2, "redirect", REDIRECT_MS,
                   IF TruthyString(response.redirectUrl) THEN response.redirectUrl[1]
                   ELSE DASHBOARD)

\* handleLogin without its check of the registration number's format
handleLoginSkipsFormat(s) ==
    LET loginData == [regNo |-> Trim(s.loginFields.regNo),
                      password |-> s.loginFields.password]
    IN  IF loginData.regNo = <<>> \/ loginData.password = <<>>
        THEN showMessage(s, MSG_REQUIRED, "error")
        ELSE [showLoadingState(s, "login", TRUE) EXCEPT !.pending.login = @ + 1]

\* handleLogin up to the await
handleLogin(s) ==
    LET loginData == [regNo |-> Trim(s.loginFields.regNo),
                      password |-> s.loginFields.password]
    IN  IF loginData.regNo = <<>> \/ loginData.password = <<>>
        THEN showMessage(s, MSG_REQUIRED, "error")
        ELSE IF ~validateRegistrationNumber(loginData.regNo)
        THEN showMessage(s, MSG_REGNO_FORMAT, "error")
        ELSE [showLoadingState(s, "login", TRUE) EXCEPT !.pending.login = @ + 1]

\* loginSettled whose else branch throws after its message, so that the
\* catch block shows a second one
loginSettledShowsTwice(s, o) ==
    LET call == makeApiCall(o)
        s0 == [s EXCEPT !.pending.login = @ - 1]
    IN  IF call.threw
        THEN loginCatch(s0, call.message)
        ELSE LET s1 == showLoadingState(s0, "login", FALSE)
             IN  IF call.result.success
                 THEN loginSuccess(s1, call.result)
                 ELSE loginCatch(showMessage(s1, MSG_LOGIN_FAILED, "error"),
                                 MSG_LOGIN_FAILED)

\* handleLogin from the await on
loginSettled(s, o) ==
    LET call == makeApiCall(o)
        s0 == [s EXCEPT !.pending.login = @ - 1]
    IN  IF call.threw
        THEN loginCatch(s0, call.message)
        ELSE LET s1 == showLoadingState(s0, "login", FALSE)
             IN  IF call.result.success
                 THEN loginSuccess(s1, call.result)
                 ELSE showMessage(s1,
                                  IF TruthyText(call.result.message)
                                  THEN call.result.message[1] ELSE MSG_LOGIN_FAILED,
                                  "error")

\* signupCatch that takes every raised error for a connection failure
signupCatchAlwaysConnect(s, errorMessage) ==
    showMessage(showLoadingState(s, "signup", FALSE), MSG_CONNECT, "error")

\* the catch block of handleSignup
signupCatch(s, errorMessage) ==
    LET s1 == showLoadingState(s, "signup", FALSE)
    IN  IF Includes(errorMessage, FETCH_WORD)
        THEN showMessage(s1, MSG_CONNECT, "error")
        ELSE showMessage(s1, IF errorMessage # <<>> THEN errorMessage ELSE MSG_SIGNUP_RETRY,
                         "error")

\* signupSuccess that stores a token the response carries, as login does
signupSuccessStoresToken(s, response) ==
    LET s1 == IF TruthyString(response.token)
              THEN [s EXCEPT !.token = Some(response.token[1])] ELSE s
    IN  setTimeout(showMessage(s1, MSG_CREATED, "success"), "switch", SWITCH_MS, "")

\* signupSuccess that shows its message and sets no switch to the login form
signupSuccessStaysOnSignup(s, response) ==
    showMessage(s, MSG_CREATED, "success")

\* the success branch of handleSignup
signupSuccess(s, response) ==
    setTimeout(showMessage(s, MSG_CREATED, "success"), "switch", SWITCH_MS, "")

\* handleSignup up to the await
handleSignup(s) ==
    LET signupData == [s.signupFields EXCEPT !.name = Trim(@), !.fatherName = Trim(@),
                                             !.regNo = Trim(@)]
        validationResult == validateSignupData(signupData, getStoredUsers(s))
    IN  IF ~validationResult.isValid
        THEN showMessage(s, validationResult.message, "error")
        ELSE [showLoadingState(s, "signup", TRUE) EXCEPT !.pending.signup = @ + 1]

\* handleSignup from the await on
signupSettled(s, o) ==
    LET call == makeApiCall(o)
        s0 == [s EXCEPT !.pending.signup = @ - 1]
    IN  IF call.threw
        THEN signupCatch(s0, call.message)
        ELSE LET s1 == showLoadingState(s0, "signup", FALSE)
             IN  IF call.result.success
                 THEN signupSuccess(s1, call.result)
                 ELSE showMessage(s1,
                                  IF TruthyText(call.result.message)
                                  THEN call.result.message[1] ELSE MSG_SIGNUP_FAILED,
                                  "error")

\* the callback of a timer
timerCallback(s, timer) ==
    CASE timer.kind = "hide" -> hideMessage(s)
      [] timer.kind = "redirect" -> [s EXCEPT !.location = timer.url]
      [] timer.kind = "switch" -> switchToLogin(s)


----------------------------------------------------------------------------
(* Actions.                                                                *)

\* The user acts on the form that is shown, and a submit button that is
\* disabled submits nothing; once the redirect has left the page, nothing of
\* it runs any more.

\* the page is loaded and the step keeps the timer queue within its bound
Step(r) == location = THIS_PAGE /\ Len(r.timers) <= MaxTimers /\ Becomes(r)

\* the user types into the login form
TypeLogin ==
    /\ active.login
    /\ \E e \in LoginEntries : Step([State EXCEPT !.loginFields = e])

\* the user types into the text inputs of the signup form
TypeSignup ==
    /\ active.signup
    /\ \E e \in SignupEntries :
         Step([State EXCEPT !.signupFields =
                  e @@ [course |-> signupFields.course, department |-> signupFields.department]])

\* the user selects course c: the change event runs handleCourseChange
SelectsCourse(c) ==
    /\ active.signup
    /\ Step(handleCourseChange([State EXCEPT !.signupFields.course = c]))

SelectCourse == \E c \in Courses : SelectsCourse(c)

\* the user selects one of the department options
SelectDepartment ==
    /\ active.signup
    /\ ~department.disabled
    /\ \E i \in DepartmentPicks :
         /\ i <= Len(department.options)
         /\ Step([State EXCEPT !.signupFields.department = department.options[i].value])

\* the user follows the link to the signup form
SwitchToSignup == Step(switchToSignup(State))

\* the user follows the link to the login form
SwitchToLogin == Step(switchToLogin(State))

\* the login form is submitted; a disabled submit button submits nothing
LoginSubmit ==
    /\ active.login
    /\ ~buttons.login.disabled
    /\ Step(handleLogin(State))

\* the login request is settled with outcome o
LoginSettles(o) ==
    /\ pending.login > 0
    /\ Step(loginSettled(State, o))

LoginSettle == \E o \in Outcomes : LoginSettles(o)

\* the signup form is submitted
SignupSubmit ==
    /\ active.signup
    /\ ~buttons.signup.disabled
    /\ Step(handleSignup(State))

\* the signup request is settled with outcome o
SignupSettles(o) ==
    /\ pending.signup > 0
    /\ Step(signupSettled(State, o))

SignupSettle == \E o \in Outcomes : SignupSettles(o)

\* timer i can be the next to fire: every timer set before it that is still
\* pending has a longer delay, so none of them is due before it
MayFire(i) == \A j \in 1..(i - 1) : timers[j].delay > timers[i].delay

\* pending timer i fires: it leaves the queue and its callback runs
TimerFiresAt(i) ==
    /\ i \in 1..Len(timers)
    /\ MayFire(i)
    /\ Step(timerCallback(
           [State EXCEPT !.timers = SubSeq(timers, 1, i - 1)
                                    \o SubSeq(timers, i + 1, Len(timers))],
           timers[i]))

TimerFires == \E i \in 1..MaxTimers : TimerFiresAt(i)

Next ==
    \/ TypeLogin
    \/ TypeSignup
    \/ SelectCourse
    \/ SelectDepartment
    \/ SwitchToSignup
    \/ SwitchToLogin
    \/ LoginSubmit
    \/ LoginSettle
    \/ SignupSubmit
    \/ SignupSettle
    \/ TimerFires

Spec == Init /\ [][Next]_vars


----------------------------------------------------------------------------
(* The functions on their own: a call is drawn with its argument, and the  *)
(* one step of a behaviour applies the function to it.                     *)

\* longest passing-year text drawn character by character
MaxYearLen == 4

\* characters of those texts: digits, a letter, a blank
YearChars == {"1", "2", "9", "0", "a", " "}

\* passing-year texts at and around the limits, with what a text field may
\* hold besides digits
YearTexts ==
    {<<"1","9","6","9">>, <<"1","9","7","0">>, <<"1","9","9","9">>, <<"2","0","2","5">>,
     <<"2","0","2","6">>, <<"a","b","c","d">>, <<"2","0","0","0","a","b","c">>,
     <<"2","0","2","5","-","0","6">>, <<" ","2","0","0","0">>, <<"2","0","0","0"," ">>,
     <<"-","1","9","9","9">>, <<"+","1","9","9","9">>, <<"0","x","7","C","F">>,
     <<"0","1","9","9","9">>, <<"1","9","7","0","0">>, <<"1","9","/","7","0">>}

\* the values of the passing-year field
YearInputs == YearTexts \cup UNION {[1..n -> YearChars] : n \in 0..MaxYearLen}

\* what the token slot may hold: nothing, the empty string, a token
TokenSlots == {None, Some(""), Some("xyz")}

\* what the cache of known users may hold
UserCaches == {{}, {<<"C","D","5","6","7","8">>}}

\* the data validateSignupData is called with: every field empty or not,
\* and the checked fields with values that fail each check
SignupInputs ==
    [name : {<<>>, <<"A","s","h","a">>},
     fatherName : {<<>>, <<"R","a","v","i">>},
     course : {"", "UG"},
     department : {"", "BCA"},
     regNo : {<<>>, <<"A","B","1","2">>, <<"C","D","5","6","7","8">>,
              <<"A","B","1","2","3","4">>},
     passingYear : {<<>>, <<"1","9","6","9">>, <<"1","9","7","0">>},
     password : {<<>>, <<"a","b","c","d","e","f","g","h">>,
                 <<"a","b","c","1","2","3","4","5">>},
     confirmPassword : {<<>>, <<"a","b","c","1","2","3","4","5">>,
                        <<"a","b","c","1","2","3","4","6">>},
     currentPosition : {<<>>, <<"C","l","e","r","k">>},
     currentCompany : {<<>>, <<"L","N","D">>}]

\* the statuses of the responses
Statuses == {200, 201, 299, 300, 304, 400, 401, 404, 500, 503}

\* the bodies of the responses: the message absent, empty, or a text
ApiBodies ==
    {[NoBody EXCEPT !.success = ok, !.message = m] :
        ok \in BOOLEAN,
        m \in {None, Some(<<>>),
               Some(<<"I","n","v","a","l","i","d"," ","c","r","e","d","e","n","t",
                      "i","a","l","s">>)}}

\* how a request may end, with every status
ApiOutcomes ==
    {o \in Outcomes : o.kind = "network"}
    \cup
    {[o EXCEPT !.status = st] : o \in {x \in Outcomes : x.kind = "badjson"},
                                st \in Statuses}
    \cup
    {[kind |-> "json", text |-> <<>>, status |-> st, body |-> b] :
        st \in Statuses, b \in ApiBodies}

\* a call of fn with argument arg that has not run yet
Call(fn, arg) == [fn |-> fn, arg |-> arg, done |-> FALSE, result |-> <<>>]

CallsInit ==
    /\ Loaded
    /\ \/ /\ token \in TokenSlots
          /\ users = {}
          /\ fnCall = Call("isUserLoggedIn", <<>>)
       \/ /\ token = None
          /\ users = {}
          /\ \E y \in YearInputs : fnCall = Call("validatePassingYear", y)
       \/ /\ token = None
          /\ users \in UserCaches
          /\ \E d \in SignupInputs : fnCall = Call("validateSignupData", d)
       \/ /\ token = None
          /\ users = {}
          /\ \E o \in ApiOutcomes : fnCall = Call("makeApiCall", o)

\* the call returns result
Returns(result) ==
    /\ ~fnCall.done
    /\ fnCall' = [fnCall EXCEPT !.done = TRUE, !.result = result]
    /\ UNCHANGED page

CallIsUserLoggedIn ==
    /\ fnCall.fn = "isUserLoggedIn"
    /\ Returns(isUserLoggedIn(State))

CallValidatePassingYear ==
    /\ fnCall.fn = "validatePassingYear"
    /\ Returns(validatePassingYear(fnCall.arg))

CallValidateSignupData ==
    /\ fnCall.fn = "validateSignupData"
    /\ Returns(validateSignupData(fnCall.arg, getStoredUsers(State)))

CallMakeApiCall ==
    /\ fnCall.fn = "makeApiCall"
    /\ Returns(makeApiCall(fnCall.arg))

CallsNext ==
    \/ CallIsUserLoggedIn
    \/ CallValidatePassingYear
    \/ CallValidateSignupData
    \/ CallMakeApiCall

Calls == CallsInit /\ [][CallsNext]_vars

----------------------------------------------------------------------------
(* Timers come due.  A callback set with setTimeout runs once its delay    *)
(* has passed, as long as the page is loaded: a timer that may fire does   *)
(* not wait for ever.                                                       *)

\* a pending timer of the kind fires
Fires(kind) ==
    \E i \in 1..MaxTimers :
        /\ i <= Len(timers)
        /\ timers[i].kind = kind
        /\ TimerFiresAt(i)

\* the responses of the behaviours whose timers are followed to their end:
\* a transport failure, a refusal with its message, and the successes that
\* carry a token, with and without a redirectUrl
LiveOutcomes ==
    {o \in Outcomes :
        \/ o.kind = "network" /\ Includes(o.text, FETCH_WORD)
        \/ o.kind = "json" /\ ~ResponseOk(o.status) /\ o.body.message # None
        \/ o.kind = "json" /\ ResponseOk(o.status) /\ o.body.success
           /\ o.body.token = Some("xyz")}

\* every step of Next, the requests settled with those responses
LiveNext ==
    \/ TypeLogin
    \/ TypeSignup
    \/ SelectCourse
    \/ SelectDepartment
    \/ SwitchToSignup
    \/ SwitchToLogin
    \/ LoginSubmit
    \/ \E o \in LiveOutcomes : LoginSettles(o)
    \/ SignupSubmit
    \/ \E o \in LiveOutcomes : SignupSettles(o)
    \/ TimerFires

Live ==
    /\ Init
    /\ [][LiveNext]_vars
    /\ WF_vars(Fires("hide"))
    /\ WF_vars(Fires("redirect"))
    /\ WF_vars(Fires("switch"))

----------------------------------------------------------------------------
(* Validation on blur: the feedback of the inputs.                         *)

\* border colours of a valid and of an invalid input
SUCCESS_COLOR == "#48bb78"
ERROR_COLOR == "#f56565"

\* an input element as validateField sees it: its value, its inline border
\* colour, and of its parent element the class list and the .error-message
\* children.  The HTML is not among the sources: every validated input is
\* taken to have a parent of its own.
Element(value, fb) ==
    [value |-> value, borderColor |-> fb.borderColor, classList |-> fb.classList,
     errorMessages |-> fb.errorMessages]

\* what validation leaves on the element
FeedbackOf(el) ==
    [classList |-> el.classList, errorMessages |-> el.errorMessages,
     borderColor |-> el.borderColor]

\* validateField that leaves an earlier error message in place
validateFieldKeepsMessage(inputElement, isValid, errorMessage) ==
    LET cleared == [inputElement EXCEPT !.classList = @ \ {"error", "success"}]
    IN  IF Trim(inputElement.value) = <<>> THEN cleared
        ELSE IF isValid
        THEN [cleared EXCEPT !.classList = @ \cup {"success"},
                             !.borderColor = SUCCESS_COLOR]
        ELSE [cleared EXCEPT !.classList = @ \cup {"error"},
                             !.borderColor = ERROR_COLOR,
                             !.errorMessages = Append(@, errorMessage)]

\* validateField: both classes leave the wrapper, querySelector finds the
\* first .error-message and it is removed; an empty value returns here;
\* otherwise class and border colour are set, and an error message appended
validateField(inputElement, isValid, errorMessage) ==
    LET cleared == [inputElement EXCEPT
                       !.classList = @ \ {"error", "success"},
                       !.errorMessages = IF @ # <<>> THEN Tail(@) ELSE @]
    IN  IF Trim(inputElement.value) = <<>> THEN cleared
        ELSE IF isValid
        THEN [cleared EXCEPT !.classList = @ \cup {"success"},
                             !.borderColor = SUCCESS_COLOR]
        ELSE [cleared EXCEPT !.classList = @ \cup {"error"},
                             !.borderColor = ERROR_COLOR,
                             !.errorMessages = Append(@, errorMessage)]

\* the value of a validated input
InputValue(s, input) ==
    CASE input = "loginRegNo" -> s.loginFields.regNo
      [] input = "regNumber" -> s.signupFields.regNo
      [] input = "signupPassingYear" -> s.signupFields.passingYear
      [] input = "signupPassword" -> s.signupFields.password
      [] input = "confirmPassword" -> s.signupFields.confirmPassword

\* the predicate result that the blur listener of the input passes on
BlurPredicate(s, input) ==
    CASE input = "loginRegNo" -> validateRegistrationNumber(s.loginFields.regNo)
      [] input = "regNumber" -> validateRegistrationNumber(s.signupFields.regNo)
      [] input = "signupPassingYear" -> validatePassingYear(s.signupFields.passingYear)
      [] input = "signupPassword" -> validatePassword(s.signupFields.password)
      [] input = "confirmPassword" ->
             s.signupFields.confirmPassword = s.signupFields.password

\* the error message that the blur listener of the input passes on
BlurMessage(input) ==
    CASE input = "loginRegNo" -> MSG_REGNO_FORMAT
      [] input = "regNumber" -> MSG_REGNO_FORMAT
      [] input = "signupPassingYear" -> MSG_YEAR
      [] input = "signupPassword" -> MSG_PASSWORD
      [] input = "confirmPassword" -> MSG_MISMATCH

\* the blur listener of the input, on the page in state s with feedback fb
blurListener(s, fb, input) ==
    FeedbackOf(validateField(Element(InputValue(s, input), fb[input]),
                             BlurPredicate(s, input), BlurMessage(input)))

\* the form the input belongs to
FormOf(input) == IF input = "loginRegNo" THEN "login" ELSE "signup"

\* what the user types into a validated input
InputTexts(input) ==
    CASE input = "loginRegNo" ->
             {<<>>, <<"A","B","1","2">>, <<"A","B","1","2","3","4">>}
      [] input = "regNumber" ->
             {<<>>, <<" "," ">>, <<" ","A","B","1","2","3","4">>}
      [] input = "signupPassingYear" ->
             {<<>>, <<"1","9","6","9">>, <<"1","9","7","0">>}
      [] input = "signupPassword" ->
             {<<>>, <<"a","b","c","d","e","f","g","h">>,
              <<"a","b","c","1","2","3","4","5">>}
      [] input = "confirmPassword" ->
             {<<>>, <<"a","b","c","1","2","3","4","5">>}

\* state s with text typed into the input
Typed(s, input, text) ==
    CASE input = "loginRegNo" -> [s EXCEPT !.loginFields.regNo = text]
      [] input = "regNumber" -> [s EXCEPT !.signupFields.regNo = text]
      [] input = "signupPassingYear" -> [s EXCEPT !.signupFields.passingYear = text]
      [] input = "signupPassword" -> [s EXCEPT !.signupFields.password = text]
      [] input = "confirmPassword" -> [s EXCEPT !.signupFields.confirmPassword = text]

\* the user types into a validated input of the form that is shown
TypesInto(input) ==
    /\ active[FormOf(input)]
    /\ \E text \in InputTexts(input) : Step(Typed(State, input, text))

TypeInto == \E input \in ValidatedInputs : TypesInto(input)

\* a validated input of the form that is shown loses the focus
BlurOf(input) ==
    /\ location = THIS_PAGE
    /\ active[FormOf(input)]
    /\ feedback' = [feedback EXCEPT ![input] = blurListener(State, feedback, input)]
    /\ UNCHANGED <<active, message, timers, token, users, loginFields, signupFields,
                   department, buttons, pending, location, fnCall>>

Blur == \E input \in ValidatedInputs : BlurOf(input)

\* the forms with their validation on blur: typing, leaving an input, and
\* the two links that switch the form and reset the other one
BlursNext ==
    \/ TypeInto
    \/ Blur
    \/ SwitchToSignup
    \/ SwitchToLogin

Blurs == Init /\ [][BlursNext]_vars
----------------------------------------------------------------------------
(* Properties.                                                             *)

Forms == {"login", "signup"}

\* C1: every failure path restores the submit control: in no reachable
\* state is a form's submit control disabled, or still labelled as loading,
\* while none of that form's requests awaits its response.
SubmitControlRestored ==
    \A f \in Forms :
        pending[f] = 0 =>
            /\ ~buttons[f].disabled
            /\ ~buttons[f].loading
            /\ buttons[f].label = IF f = "login" THEN "Sign In" ELSE "Create Account"

\* C1 witness: a login request ended in a failure whose message is shown
\* (the HTTP error text comes from the non-2xx branch of makeApiCall only),
\* nothing is pending and the login button is enabled again.
FailureSettledAndEnabled ==
    /\ message.text = HTTP_ERROR_PREFIX \o <<"4","0","1">>
    /\ message.type = "error"
    /\ active.login
    /\ pending.login = 0
    /\ ~buttons.login.disabled

\* the outcomes of one kind
OutcomesOfKind(k) == {o \in Outcomes : o.kind = k}

\* the state after form f's pending request is settled with outcome o
AfterSettled(f, o) ==
    IF f = "login" THEN loginSettled(State, o) ELSE signupSettled(State, o)

\* request outcome o of either form is settled in this step
Settles(o) == LoginSettles(o) \/ SignupSettles(o)

\* this step settles a request of form f
Settling(f) == pending'[f] < pending[f]

\* C2: when the request fails at transport level (fetch rejects), whatever
\* the text of the raised error, the message shown is the connectivity
\* message and the submit control is enabled again.
TransportFailureShowsConnect ==
    [][\A f \in Forms :
          Settling(f) =>
              \A o \in OutcomesOfKind("network") :
                  Settles(o) =>
                      /\ message'.shown
                      /\ message'.text = MSG_CONNECT
                      /\ ~buttons'[f].disabled]_vars

\* C3 as claimed: when response.json() rejects, the message shown is the
\* connectivity message, not the parse error's own text.
ParseFailureShowsConnect ==
    [][\A f \in Forms :
          Settling(f) =>
              \A o \in OutcomesOfKind("badjson") :
                  Settles(o) => (message'.shown /\ message'.text = MSG_CONNECT)]_vars

\* C3 as amended: when response.json() rejects, login and signup show an
\* error message and enable the submit control; the message is the parse
\* error's own text, and the connectivity message only when that text
\* contains 'fetch'.
ParseFailureShowsItsText ==
    \A f \in Forms :
        pending[f] > 0 =>
            \A o \in OutcomesOfKind("badjson") :
                LET after == AfterSettled(f, o)
                IN  /\ after.message.shown
                    /\ after.message.type = "error"
                    /\ after.message.text =
                           IF Includes(o.text, FETCH_WORD) THEN MSG_CONNECT ELSE o.text
                    /\ ~after.buttons[f].disabled

\* C3 witness: the text of a parse error is on display as an error, the
\* signup request that raised it is settled and its button is enabled.
ParseErrorTextShown ==
    /\ message.shown
    /\ message.type = "error"
    /\ Includes(message.text, <<"J","S","O","N">>)
    /\ ~Includes(message.text, FETCH_WORD)
    /\ active.signup
    /\ pending.signup = 0
    /\ ~buttons.signup.disabled

\* C4 as claimed: a signup submission whose password and confirmation
\* differ, whatever the other fields hold, issues no request and shows
\* 'Passwords do not match'.
MismatchShowsMismatch ==
    [][(signupFields.password # signupFields.confirmPassword /\ SignupSubmit) =>
          (pending' = pending /\ message'.text = MSG_MISMATCH)]_vars

\* the five checks validateSignupData makes before it compares the
\* passwords, on the values handleSignup reads from the inputs
EarlierChecksPass ==
    LET regNo == Trim(signupFields.regNo)
    IN  /\ Trim(signupFields.name) # <<>>
        /\ Trim(signupFields.fatherName) # <<>>
        /\ signupFields.course # ""
        /\ signupFields.department # ""
        /\ signupFields.passingYear # <<>>
        /\ signupFields.password # <<>>
        /\ signupFields.confirmPassword # <<>>
        /\ Len(regNo) >= 6
        /\ \A i \in 1..Len(regNo) : regNo[i] \in Letters \cup Digits
        /\ regNo \notin users
        /\ validatePassingYear(signupFields.passingYear)
        /\ validatePassword(signupFields.password)

\* C4 as amended: a signup submission whose password and confirmation
\* differ issues no request, leaves the submit control alone and shows an
\* error message; the message is 'Passwords do not match' exactly when the
\* five earlier checks pass, and otherwise the message of an earlier check.
MismatchNeverSubmits ==
    signupFields.password # signupFields.confirmPassword =>
        LET after == handleSignup(State)
        IN  /\ after.pending = pending
            /\ after.buttons = buttons
            /\ after.message.shown
            /\ after.message.type = "error"
            /\ after.message.text \in
                   {MSG_REQUIRED, MSG_REGNO_FORMAT, MSG_REGNO_EXISTS, MSG_YEAR,
                    MSG_PASSWORD, MSG_MISMATCH}
            /\ (after.message.text = MSG_MISMATCH) = EarlierChecksPass

\* C4 witness: the mismatch message is shown for a signup form whose
\* passwords differ, and no signup request is pending.
MismatchRejected ==
    /\ message.shown
    /\ message.text = MSG_MISMATCH
    /\ signupFields.password # signupFields.confirmPassword
    /\ pending.signup = 0
    /\ ~buttons.signup.disabled

\* C5: when the login request is settled by a 2xx response with success
\* true and a (non-empty) token t, the token slot holds t afterwards,
\* whatever it held before: gettoken() returns t and isUserLoggedIn() is true.
LoginStoresToken ==
    pending.login > 0 =>
        \A o \in OutcomesOfKind("json") :
            (ResponseOk(o.status) /\ o.body.success /\ TruthyString(o.body.token)) =>
                LET after == loginSettled(State, o)
                IN  /\ gettoken(after) = o.body.token
                    /\ isUserLoggedIn(after)

\* C5 witness: a login succeeded with a response that carried a token: the
\* welcome message is up, the slot holds the token of the response, and
\* the redirect is scheduled.
TokenStored ==
    /\ token = Some("xyz")
    /\ Includes(message.text, WELCOME_PREFIX)
    /\ pending.login = 0
    /\ \E i \in 1..Len(timers) : timers[i].kind = "redirect"

\* C6: no step of the signup sequence writes or removes the token slot:
\* not the submission (rejected locally or sent), not the settling of the
\* request with any outcome (a success that carries a token included), not
\* the delayed switch to the login form.
SignupLeavesToken ==
    /\ handleSignup(State).token = token
    /\ pending.signup > 0 => \A o \in Outcomes : signupSettled(State, o).token = token
    /\ \A i \in 1..Len(timers) :
           timers[i].kind = "switch" => timerCallback(State, timers[i]).token = token

\* C6 witness: a signup succeeded (its message is in the message area, its
\* delayed switch is pending) and the token slot is still empty.
SignedUpWithoutToken ==
    /\ message.text = MSG_CREATED
    /\ message.shown
    /\ \E i \in 1..Len(timers) : timers[i].kind = "switch"
    /\ pending.signup = 0
    /\ token = None

\* C7: an auto-hide scheduled by an earlier showMessage never hides a
\* message shown by a later showMessage: when an auto-hide timer fires on a
\* visible message, no auto-hide timer set after it is pending (the visible
\* message is the latest one, and its own five seconds end only when its
\* own timer fires).
AutoHideSparesLaterMessage ==
    [][\A i \in 1..MaxTimers :
          (/\ i <= Len(timers)
           /\ timers[i].kind = "hide"
           /\ message.shown
           /\ TimerFiresAt(i)) =>
              ~\E j \in (i + 1)..Len(timers) : timers[j].kind = "hide"]_vars

\* the option list the catalog prescribes for a course: the placeholder,
\* then the departments of the course in catalog order
ExpectedOptions(course) ==
    LET list == IF course = "UG" THEN UG_DEPARTMENTS
                ELSE IF course = "PG" THEN PG_DEPARTMENTS ELSE <<>>
    IN  <<PLACEHOLDER_OPTION>> \o [i \in 1..Len(list) |-> [value |-> list[i], text |-> list[i]]]

\* C8: in every reachable state the department dropdown is disabled
\* whenever the course selection is empty, its options are exactly the
\* placeholder plus the department list of the current course, and the
\* department selected is one of these options.
DepartmentFollowsCourse ==
    /\ signupFields.course = "" => department.disabled
    /\ department.options = ExpectedOptions(signupFields.course)
    /\ \E i \in 1..Len(department.options) :
           department.options[i].value = signupFields.department

\* C8 witness: a signup with a course and a department went through, and
\* its delayed switch to the login form has reset course and dropdown.
DropdownResetAfterSignup ==
    /\ message.text = MSG_CREATED
    /\ active.login
    /\ \A i \in 1..Len(timers) : timers[i].kind # "switch"
    /\ signupFields.course = ""
    /\ department.disabled
    /\ Len(department.options) = 1

\* C9: handleCourseChange computes the dropdown from the course alone,
\* whatever the options and the selection were: disabled with the single
\* placeholder for an empty or unknown course; enabled, with the
\* placeholder and then the course's departments in catalog order, for UG
\* and PG.  The selection falls back to the placeholder.
CourseAloneDecidesDropdown ==
    \A c \in Courses :
        LET after == handleCourseChange([State EXCEPT !.signupFields.course = c])
        IN  /\ after.department.disabled = (c \notin {"UG", "PG"})
            /\ after.department.options = ExpectedOptions(c)
            /\ (c \notin {"UG", "PG"} => after.department.options = <<PLACEHOLDER_OPTION>>)
            /\ after.signupFields.department = ""

\* C9 witness: a course change to an unknown course has run, and the
\* dropdown is disabled with the placeholder alone.
UnknownCourseDisables ==
    /\ signupFields.course = "PHD"
    /\ department.disabled
    /\ department.options = <<PLACEHOLDER_OPTION>>
    /\ active.signup

\* C10: from every reachable state, switchToLogin twice in a row yields
\* the state that switchToLogin once yields.
SwitchToLoginIdempotent ==
    switchToLogin(switchToLogin(State)) = switchToLogin(State)

\* C10 witness: a state that switchToLogin changes in every respect: the
\* signup form is active and filled, a course is selected, the dropdown is
\* enabled and a message is visible.
SwitchToLoginHasWork ==
    /\ active.signup
    /\ message.shown
    /\ signupFields.name # <<>>
    /\ signupFields.course = "UG"
    /\ signupFields.department # ""
    /\ ~department.disabled
    /\ token # None


----------------------------------------------------------------------------
(* Local rejection of a login.                                             *)

\* login forms that handleLogin is to reject, beyond those the user of the
\* model types: a blank registration number, one with a symbol, a short one
RejectedLoginEntries ==
    {[regNo |-> <<" "," ">>, password |-> <<"s","e","c","r","e","t">>],
     [regNo |-> <<"A","B","-","1","2","3","4">>, password |-> <<"s","e","c","r","e","t">>],
     [regNo |-> <<"A","B","1","2","3">>, password |-> <<"s","e","c","r","e","t">>],
     [regNo |-> <<"A","B","1","2","3","4">>, password |-> <<>>]}

\* the trimmed registration number or the password of the form is empty, or
\* the trimmed registration number fails validateRegistrationNumber
LocallyRejected(fields) ==
    \/ Trim(fields.regNo) = <<>>
    \/ fields.password = <<>>
    \/ ~validateRegistrationNumber(Trim(fields.regNo))

\* handleLogin on state s showed an error and did nothing else: no request
\* was issued, the submit buttons are as they were, and so is the token slot
RejectedIn(s) ==
    LET r == handleLogin(s)
    IN  /\ r.message.shown
        /\ r.message.type = "error"
        /\ r.message.text \in {MSG_REQUIRED, MSG_REGNO_FORMAT}
        /\ r.pending = s.pending
        /\ r.buttons = s.buttons
        /\ r.token = s.token

\* C11: in every reachable state, submitting a login form whose trimmed
\* registration number or password is empty, or whose registration number
\* fails validateRegistrationNumber, shows an error message, issues no
\* request, leaves the submit control out of the loading state and leaves
\* the token slot unchanged.
LoginRejectedLocally ==
    /\ LocallyRejected(loginFields) => RejectedIn(State)
    /\ \A e \in RejectedLoginEntries :
         LocallyRejected(e) /\ RejectedIn([State EXCEPT !.loginFields = e])

\* C11 witness: a login with a malformed registration number was submitted
\* and rejected: the format message is shown, no request is pending and the
\* button is not loading.
LoginWasRejected ==
    /\ LocallyRejected(loginFields)
    /\ loginFields.regNo # <<>>
    /\ message.shown
    /\ message.text = MSG_REGNO_FORMAT
    /\ pending.login = 0
    /\ ~buttons.login.loading

----------------------------------------------------------------------------
(* One request per form.                                                   *)

\* C12: in every reachable state, each form has at most one request in
\* flight, and its submit control is disabled exactly while that request is
\* in flight: a request of one form leaves the other form's control as it
\* was, so the other form can be submitted meanwhile.
OneRequestPerForm ==
    /\ \A f \in Forms :
         /\ pending[f] \in {0, 1}
         /\ buttons[f].disabled <=> pending[f] = 1
    /\ handleLogin(State).buttons.signup = buttons.signup
    /\ handleSignup(State).buttons.login = buttons.login
    /\ \A o \in Outcomes :
         /\ pending.login > 0 => loginSettled(State, o).buttons.signup = buttons.signup
         /\ pending.signup > 0 => signupSettled(State, o).buttons.login = buttons.login

\* C12 witness: the signup form was submitted while the login request was
\* in flight: both requests are pending, each with its control disabled.
BothRequestsInFlight ==
    /\ pending.login = 1
    /\ pending.signup = 1
    /\ buttons.login.disabled
    /\ buttons.signup.disabled

----------------------------------------------------------------------------
(* One error message per failed attempt.                                   *)

\* Every showMessage call sets one auto-hide timer and nothing else does:
\* the auto-hide timers of a state count the showMessage calls so far that
\* have not yet come due.
HideTimers(s) == Cardinality({i \in 1..Len(s.timers) : s.timers[i].kind = "hide"})

\* state r results from state s by exactly one showMessage call, of type error
OneErrorShown(s, r) ==
    /\ HideTimers(r) = HideTimers(s) + 1
    /\ Len(r.timers) = Len(s.timers) + 1
    /\ r.message.shown
    /\ r.message.type = "error"

\* the request failed: in transport, in parsing, by its status, or by the
\* application's answer
FailedOutcome(o) ==
    \/ o.kind \in {"network", "badjson"}
    \/ ~ResponseOk(o.status)
    \/ ~o.body.success

\* C13: in every reachable state, a submission of login or signup that
\* issues no request (local validation failed) and the settling of a request
\* by any failed outcome each call showMessage exactly once, with type error.
FailureShowsOneError ==
    /\ LocallyRejected(loginFields) => OneErrorShown(State, handleLogin(State))
    /\ handleLogin(State).pending = pending => OneErrorShown(State, handleLogin(State))
    /\ handleSignup(State).pending = pending => OneErrorShown(State, handleSignup(State))
    /\ \A o \in Outcomes :
         FailedOutcome(o) =>
            /\ pending.login > 0 => OneErrorShown(State, loginSettled(State, o))
            /\ pending.signup > 0 => OneErrorShown(State, signupSettled(State, o))

\* C13 witness: a login request was answered with the application's refusal
\* and its message: that error is shown, and the one auto-hide timer of its
\* showMessage call is the only timer pending.
RefusalShownOnce ==
    /\ message.shown
    /\ message.type = "error"
    /\ \E b \in FailureBodies : b.message # None /\ message.text = b.message[1]
    /\ Len(timers) = 1
    /\ HideTimers(State) = 1
    /\ pending.login = 0
    /\ active.login

----------------------------------------------------------------------------
(* The token helpers.                                                      *)

\* C14: whatever the token slot holds (nothing, the empty string, a
\* non-empty string), isUserLoggedIn() returns true exactly when gettoken()
\* is not null.
LoggedInIffTokenPresent ==
    (fnCall.fn = "isUserLoggedIn" /\ fnCall.done) =>
        (fnCall.result <=> gettoken(State) # None)

----------------------------------------------------------------------------
(* The passing year.                                                       *)

\* The number a text denotes: a run of decimal digits with an optional sign,
\* or a hexadecimal literal, white space around it aside; <<>> when the
\* text denotes no number (the empty text and every text with other
\* characters).
NumberOf(y) ==
    LET t   == Trim(y)
        neg == t # <<>> /\ Head(t) = "-"
        u   == IF t # <<>> /\ Head(t) \in {"+", "-"} THEN Tail(t) ELSE t
        hex == Len(t) > 2 /\ t[1] = "0" /\ t[2] \in {"x", "X"}
               /\ \A i \in 3..Len(t) : t[i] \in HexDigits
    IN  IF hex THEN <<HexNumber(SubSeq(t, 3, Len(t)))>>
        ELSE IF u # <<>> /\ \A i \in 1..Len(u) : u[i] \in Digits
        THEN <<IF neg THEN 0 - DecimalValue(u) ELSE DecimalValue(u)>>
        ELSE <<>>

\* C15: for every value y of the passing-year field, validatePassingYear(y)
\* is true exactly when y is a number from 1970 to 2025, and so is false for
\* every y that is not a number.
YearValidIffNumberInRange ==
    (fnCall.fn = "validatePassingYear" /\ fnCall.done) =>
        (fnCall.result <=>
            (NumberOf(fnCall.arg) # <<>> /\ NumberOf(fnCall.arg)[1] \in MIN_YEAR..MAX_YEAR))

----------------------------------------------------------------------------
(* The order of the signup checks.                                         *)

\* the six checks in their order, each TRUE when the data passes it; the
\* career fields currentPosition and currentCompany are part of none
SignupChecks(data, cached) ==
    << /\ data.name # <<>> /\ data.fatherName # <<>> /\ data.course # ""
       /\ data.department # "" /\ data.regNo # <<>> /\ data.passingYear # <<>>
       /\ data.password # <<>> /\ data.confirmPassword # <<>>,
       validateRegistrationNumber(data.regNo),
       data.regNo \notin cached,
       validatePassingYear(data.passingYear),
       validatePassword(data.password),
       data.password = data.confirmPassword >>

\* the message of each check
SignupCheckMessages ==
    <<MSG_REQUIRED, MSG_REGNO_FORMAT, MSG_REGNO_EXISTS, MSG_YEAR, MSG_PASSWORD,
      MSG_MISMATCH>>

\* the checks that fail
Failing(checks) == {i \in 1..Len(checks) : ~checks[i]}

\* the first of them
FirstFailing(checks) ==
    CHOOSE i \in Failing(checks) : \A j \in Failing(checks) : i <= j

\* C16: validateSignupData returns isValid = true exactly when the data
\* passes all six checks, and otherwise the message of the first check, in
\* the order required fields, registration number format, registration
\* number not cached, passing year, password strength, confirmation, that
\* the data fails, whatever later checks fail too.
SignupChecksInOrder ==
    (fnCall.fn = "validateSignupData" /\ fnCall.done) =>
        LET checks == SignupChecks(fnCall.arg, users)
        IN  /\ fnCall.result.isValid <=> Failing(checks) = {}
            /\ ~fnCall.result.isValid =>
                   fnCall.result.message = SignupCheckMessages[FirstFailing(checks)]

\* C16 witness: validateSignupData returned the message of the cache check
\* for data that fails three later checks as well, and whose career fields
\* are empty.
CachedReportedFirst ==
    /\ fnCall.fn = "validateSignupData"
    /\ fnCall.done
    /\ fnCall.result = [isValid |-> FALSE, message |-> MSG_REGNO_EXISTS]
    /\ Failing(SignupChecks(fnCall.arg, users)) = {3, 4, 5, 6}
    /\ fnCall.arg.currentPosition = <<>>
    /\ fnCall.arg.currentCompany = <<>>

----------------------------------------------------------------------------
(* Responses outside the success range.                                    *)

\* the words of the generic error text
HTTP_ERROR_WORDS == <<"H","T","T","P"," ","e","r","r","o","r">>

\* the response's body is JSON with a non-empty message
CarriesMessage(o) ==
    o.kind = "json" /\ o.body.message # None /\ o.body.message[1] # <<>>

\* makeApiCall raised the backend's message if the body of o carries one,
\* and else the generic text with the status of o
RaisedStatusError(o, r) ==
    /\ r.threw
    /\ IF CarriesMessage(o) THEN r.message = o.body.message[1]
       ELSE /\ Includes(r.message, HTTP_ERROR_WORDS)
            /\ Includes(r.message, NumberToText(o.status))

\* C17 as claimed: for every response with a status outside 200..299,
\* makeApiCall raises the backend's message when the body carries one and
\* else the generic 'HTTP error' text with the status, also when the body is
\* not valid JSON.
NonSuccessRaisesStatusError ==
    (/\ fnCall.fn = "makeApiCall" /\ fnCall.done
     /\ fnCall.arg.kind \in {"json", "badjson"}
     /\ ~ResponseOk(fnCall.arg.status)) =>
        RaisedStatusError(fnCall.arg, fnCall.result)

\* C17 as amended: for every response with a status outside 200..299 whose
\* body is valid JSON, makeApiCall raises the backend's message when the
\* body carries one and else the generic 'HTTP error' text with the status;
\* when the body is not valid JSON, makeApiCall raises the parse error with
\* its own text, whatever the status.
NonSuccessJsonRaisesStatusError ==
    (fnCall.fn = "makeApiCall" /\ fnCall.done) =>
        /\ (fnCall.arg.kind = "json" /\ ~ResponseOk(fnCall.arg.status)) =>
               RaisedStatusError(fnCall.arg, fnCall.result)
        /\ fnCall.arg.kind = "badjson" =>
               fnCall.result.threw /\ fnCall.result.message = fnCall.arg.text

\* C17 witness: makeApiCall has raised the parse error of a 503 response
\* whose body is not JSON, which names neither 'HTTP error' nor the status.
ParseErrorRaisedFor503 ==
    /\ fnCall.fn = "makeApiCall"
    /\ fnCall.done
    /\ fnCall.arg.kind = "badjson"
    /\ fnCall.arg.status = 503
    /\ fnCall.result.threw
    /\ fnCall.result.message = fnCall.arg.text
    /\ ~Includes(fnCall.result.message, HTTP_ERROR_WORDS)

----------------------------------------------------------------------------
(* The redirect after a login.                                             *)

\* the response reports a successful login
SuccessfulOutcome(o) == o.kind = "json" /\ ResponseOk(o.status) /\ o.body.success

\* where the response sends the user
RedirectTarget(o) ==
    IF o.body.redirectUrl # None /\ o.body.redirectUrl[1] # ""
    THEN o.body.redirectUrl[1] ELSE DASHBOARD

\* the targets of the responses
RedirectTargets == {RedirectTarget(o) : o \in {x \in Outcomes : SuccessfulOutcome(x)}}

\* the pending redirects of a state, in the order they were set
Redirects(s) == SelectSeq(s.timers, LAMBDA t : t.kind = "redirect")

\* a successful response leaves the login button enabled and the page in
\* place, and sets one redirect, to the target of the response, behind the
\* timers pending
RedirectScheduled ==
    \A o \in Outcomes :
        (SuccessfulOutcome(o) /\ pending.login > 0) =>
            LET r == loginSettled(State, o)
            IN  /\ ~r.buttons.login.disabled
                /\ ~r.buttons.login.loading
                /\ r.location = location
                /\ Redirects(r) =
                       Redirects(State) \o
                       <<[kind |-> "redirect", delay |-> REDIRECT_MS,
                          url |-> RedirectTarget(o)]>>

\* a navigation happens once, from the page of the forms, to the target of
\* the earliest pending redirect, which is then no longer pending
NavigatesOnce ==
    location' # location =>
        /\ location = THIS_PAGE
        /\ Redirects(State) # <<>>
        /\ location' = Head(Redirects(State)).url
        /\ Redirects([timers |-> timers']) = Tail(Redirects(State))

\* the earliest pending redirect is to u
NextRedirectTo(u) ==
    /\ location = THIS_PAGE
    /\ Redirects(State) # <<>>
    /\ Head(Redirects(State)).url = u

\* C18 as amended: a successful login response re-enables the submit
\* control and sets exactly one redirect, to the response's redirectUrl when
\* present and to 'dashboard.html' otherwise; the earliest pending redirect
\* always eventually navigates to its target, and that is the one
\* navigation of the page: a redirect set while an earlier one is pending
\* never navigates.
FirstRedirectNavigates ==
    /\ []RedirectScheduled
    /\ [][NavigatesOnce]_vars
    /\ \A u \in RedirectTargets : NextRedirectTo(u) ~> (location = u)

\* C18 as claimed: the navigation of every successful login response
\* occurs: the page is never left with the redirect of a response still
\* pending, which would then never navigate.
EveryRedirectNavigates ==
    location # THIS_PAGE => Redirects(State) = <<>>

\* C18 witness: the page navigated to the redirectUrl of one response while
\* the redirect of a later response, to the dashboard, was pending.
NavigatedWithRedirectPending ==
    /\ location = "home.html"
    /\ Redirects(State) # <<>>
    /\ Head(Redirects(State)).url = DASHBOARD

----------------------------------------------------------------------------
(* The switch to login after a signup.                                     *)

\* the pending switches of a state, in the order they were set
Switches(s) == SelectSeq(s.timers, LAMBDA t : t.kind = "switch")

\* the page is in login mode, as switchToLogin leaves it
InLoginMode(s) ==
    /\ s.active.login
    /\ ~s.active.signup
    /\ s.signupFields = EmptySignupFields
    /\ s.department = [disabled |-> TRUE, options |-> <<PLACEHOLDER_OPTION>>]
    /\ ~s.message.shown

\* a successful signup response sets one switch, behind the timers pending
SwitchScheduled ==
    \A o \in Outcomes :
        (SuccessfulOutcome(o) /\ pending.signup > 0) =>
            Switches(signupSettled(State, o)) =
                Switches(State) \o <<[kind |-> "switch", delay |-> SWITCH_MS, url |-> ""]>>

\* whenever a pending switch fires, it leaves the page in login mode
SwitchLeavesLoginMode ==
    \A i \in 1..Len(timers) :
        timers[i].kind = "switch" =>
            InLoginMode(timerCallback(
                [State EXCEPT !.timers = SubSeq(timers, 1, i - 1)
                                         \o SubSeq(timers, i + 1, Len(timers))],
                timers[i]))

\* C19 as amended: a successful signup response sets a switch to login
\* mode, and whatever the user does during the delay (switching forms,
\* editing fields, submitting again) a pending switch eventually fires,
\* unless the redirect of a login leaves the page first; when it fires, the
\* login form is active, the signup form is inactive and reset, the
\* department dropdown is disabled with only the placeholder, and the
\* message area is hidden.
\* (Switches fire in the order they were set.  So each pending switch
\* fires or the page is left exactly if, again and again, no switch is
\* pending or the page is left, or else switches fire again and again.)
SwitchFiresUnlessPageLeft ==
    /\ []SwitchScheduled
    /\ []SwitchLeavesLoginMode
    /\ \/ []<>(Switches(State) = <<>> \/ location # THIS_PAGE)
       \/ []<><<Fires("switch")>>_vars

\* C19 as claimed: the switch of every successful signup response fires:
\* the page is never left with a switch still pending, which would then
\* never fire.
EverySwitchFires ==
    location # THIS_PAGE => Switches(State) = <<>>

\* C19 witness: the switch of a successful signup has fired while the user
\* had gone back to the signup form and typed into it: no switch is pending,
\* the auto-hide timer of the success message is, and the page is in login
\* mode.
SwitchHasFired ==
    /\ message.text = MSG_CREATED
    /\ timers = <<[kind |-> "hide", delay |-> AUTO_HIDE_MS, url |-> ""]>>
    /\ InLoginMode(State)
    /\ location = THIS_PAGE

----------------------------------------------------------------------------
(* The two forms.                                                          *)

\* C20: in every reachable state, whatever switchToSignup and switchToLogin
\* calls led to it, exactly one of the two forms is active; from every
\* reachable state each of the two functions activates its form alone,
\* hides the message and resets the form it hides, and switchToLogin also
\* disables the department dropdown and leaves it the placeholder alone.
ExactlyOneFormActive ==
    /\ active.login # active.signup
    /\ LET r == switchToSignup(State)
       IN  /\ r.active = [login |-> FALSE, signup |-> TRUE]
           /\ ~r.message.shown
           /\ r.loginFields = EmptyLoginFields
    /\ LET r == switchToLogin(State)
       IN  /\ r.active = [login |-> TRUE, signup |-> FALSE]
           /\ ~r.message.shown
           /\ r.signupFields = EmptySignupFields
           /\ r.department = [disabled |-> TRUE, options |-> <<PLACEHOLDER_OPTION>>]

\* C20 witness: the switch to the signup form hid the error of a rejected
\* login and reset the login form: the error's auto-hide timer is still
\* pending, yet the message is hidden and the login fields are empty.
SwitchHidLoginError ==
    /\ active.signup
    /\ ~active.login
    /\ message.text = MSG_REGNO_FORMAT
    /\ ~message.shown
    /\ timers = <<[kind |-> "hide", delay |-> AUTO_HIDE_MS, url |-> ""]>>
    /\ loginFields = EmptyLoginFields

----------------------------------------------------------------------------
(* Validation on blur.                                                     *)

\* input carries no validation state: neither class on its wrapper, no
\* error message in it, no border colour on the input
Unstyled(fb) ==
    /\ fb.classList \cap {"error", "success"} = {}
    /\ fb.errorMessages = <<>>
    /\ fb.borderColor \notin {SUCCESS_COLOR, ERROR_COLOR}

\* C21: after any sequence of validations on blur, the wrapper of every
\* validated input holds at most one error message, and whatever the value
\* and the predicate result of one more validateField call, the wrapper
\* holds at most one error message after it, and holds one only if the
\* value was not empty and the predicate result was false.
AtMostOneErrorMessage ==
    \A input \in ValidatedInputs :
        /\ Len(feedback[input].errorMessages) <= 1
        /\ \A text \in InputTexts(input), isValid \in BOOLEAN :
             LET after == validateField(Element(text, feedback[input]), isValid,
                                        BlurMessage(input))
             IN  /\ Len(after.errorMessages) <= 1
                 /\ (after.errorMessages # <<>>) => (Trim(text) # <<>> /\ ~isValid)

\* an input shows its error message while another, whose error message a
\* later validation has removed, shows none
ErrorMessageRemovedAgain ==
    \E input, other \in ValidatedInputs :
        /\ feedback[input].errorMessages = <<BlurMessage(input)>>
        /\ feedback[other].errorMessages = <<>>
        /\ feedback[other].borderColor = ERROR_COLOR

\* C22: whenever validateField runs on an input whose trimmed value is
\* empty, the input afterwards carries no validation state at all: no
\* success or error class, no error message, no success or error border
\* colour, whatever an earlier validation had applied.
EmptyInputLeftUnstyled ==
    \A input \in ValidatedInputs :
        (Trim(InputValue(State, input)) = <<>>) =>
            Unstyled(blurListener(State, feedback, input))

----------------------------------------------------------------------------
(* The token slot and the login sequence.                                  *)

\* outcome o is a response that reports success and carries a non-empty token
CarriesToken(o) ==
    /\ o.kind = "json"
    /\ ResponseOk(o.status)
    /\ o.body.success
    /\ TruthyString(o.body.token)

\* C23: the token slot changes only in a step in which a login request is
\* settled by a response with success = true and a non-empty token, and it
\* then holds that token; every other step (a login rejected locally or
\* sent, a login that fails in any way, a successful login response without
\* a token, and everything else the page does) leaves the slot as it was.
TokenChangesOnlyByLoginSuccess ==
    [][token' # token =>
          \E o \in Outcomes :
              /\ CarriesToken(o)
              /\ pending.login > 0
              /\ State' = loginSettled(State, o)
              /\ token' = Some(o.body.token[1])]_vars

\* the token of an earlier login is still in the slot after a later login
\* has failed, while the redirect of the earlier login is pending
TokenKeptThroughFailure ==
    /\ token = Some("xyz")
    /\ message.shown
    /\ message.text = MSG_LOGIN_FAILED
    /\ \E i \in 1..Len(timers) : timers[i].kind = "redirect"

----------------------------------------------------------------------------
(* A second login during the delay of the redirect.                        *)

\* sequence a is the beginning of sequence b
IsPrefix(a, b) == Len(a) <= Len(b) /\ SubSeq(b, 1, Len(a)) = a

\* a redirect is pending on the page of the forms
InRedirectDelay == location = THIS_PAGE /\ Redirects(State) # <<>>

\* during the delay the submit control is enabled unless a login is in
\* flight, and submitting an entry that passes the local checks sends a
\* request
ResubmitDuringDelay ==
    (InRedirectDelay /\ pending.login = 0) =>
        /\ ~buttons.login.disabled
        /\ \A e \in LoginEntries :
             ~LocallyRejected(e) =>
                 handleLogin([State EXCEPT !.loginFields = e]).pending.login = 1

\* however a login request is settled during the delay, the redirects
\* pending stay pending in their order, and the token slot holds the token
\* of the response when the response is a success that carries one, and
\* what it held before otherwise
SettlingKeepsRedirect ==
    \A o \in Outcomes :
        (InRedirectDelay /\ pending.login > 0) =>
            LET r == loginSettled(State, o)
            IN  /\ IsPrefix(Redirects(State), Redirects(r))
                /\ r.location = THIS_PAGE
                /\ r.token = IF CarriesToken(o) THEN Some(o.body.token[1]) ELSE token

\* no step on the page of the forms takes a pending redirect away or puts
\* one in front of it
RedirectStaysFirst ==
    location' = THIS_PAGE =>
        IsPrefix(Redirects(State), Redirects([timers |-> timers']))

\* the page is left for the target of the earliest pending redirect, and
\* the step leaves the token slot as it was
NavigationKeepsToken ==
    location' # location =>
        /\ InRedirectDelay
        /\ location' = Head(Redirects(State)).url
        /\ token' = token

\* a second attempt is in flight, or has failed, during the delay
SecondAttemptInDelay ==
    /\ InRedirectDelay
    /\ \/ pending.login > 0
       \/ message.shown /\ message.type = "error"

\* C24: during the delay of the redirect the login submit control is
\* enabled and a second login can be submitted; whether that attempt is in
\* flight, fails or succeeds, the redirect of the first successful response
\* stays the earliest one pending and the page eventually navigates to its
\* target; the token slot then holds the token of the latest successful
\* response that carried one, since only such a response writes the slot
\* and the navigation leaves it as it is.
FirstRedirectSurvivesSecondLogin ==
    /\ [](ResubmitDuringDelay /\ SettlingKeepsRedirect)
    /\ [][RedirectStaysFirst /\ NavigationKeepsToken]_vars
    /\ SecondAttemptInDelay ~> (location # THIS_PAGE)

\* the page navigated to the target of the first response while the second
\* login was in flight, with the token of the first response in the slot
NavigatedWithLoginInFlight ==
    /\ location # THIS_PAGE
    /\ pending.login > 0
    /\ token = Some("xyz")
=============================================================================
